---- MODULE Spec2Model ----
(***************************************************************************)
(* Flight-booking API: the four Lambda handlers of the repository.         *)
(*                                                                         *)
(*   src/src/flights/handler.py   router + list_flights + get_flight       *)
(*   src/src/auth/handler.py      stub, always 501                         *)
(*   src/src/bookings/handler.py  stub, always 501                         *)
(*   src/src/users/handler.py     stub, always 501, reports has_auth_header*)
(*                                                                         *)
(* Python values are modelled as tagged records, so that None, '' and {}   *)
(* stay distinct and Python's truthiness, dict.get and json.dumps are      *)
(* computed as the interpreter computes them.  A request path is the       *)
(* sequence of its segments: <<"flights", "FL1">> is '/flights/FL1'.       *)
(* A response body is the JSON document that json.dumps wrote.             *)
(***************************************************************************)
EXTENDS Naturals, Sequences, FiniteSets, TLC

VARIABLES
    table,      \* FlightsTable: the items in the order a scan returns them
    service,    \* the Lambda function invoked last
    event,      \* the API Gateway event it was given
    fault,      \* how the store behaved during that invocation
    result,     \* what the invocation did: returned a response, or raised
    lastGet,    \* per flight_id: the answer of the last get_flight since the last write
    prior       \* the answer an earlier get_flight gave for the flight_id just read

vars == <<table, service, event, fault, result, lastGet, prior>>

----------------------------------------------------------------------------
(* Bounds and input sets *)

MaxStore == 2

FlightIds == {"FL1", "FL2"}

Methods == {"GET", "PUT"}

\* '/flights', '/bookings', '/flights/FL1', '/v1/flights/FL1'
Paths ==
    { <<"flights">>,
      <<"bookings">>,
      <<"flights", "FL1">>,
      <<"v1", "flights", "FL1">> }

\* '/users/me', '/auth/login'
StubPaths == { <<"users", "me">>, <<"auth", "login">> }

\* str(e) of the exception a failing store call raises
StoreErrors == {"ProvisionedThroughputExceededException", "EndpointConnectionError"}

\* how the store behaves when an invocation calls it: it answers, or raises
NoFault == [fails |-> FALSE, message |-> ""]

Faults == {NoFault} \cup {[fails |-> TRUE, message |-> m] : m \in StoreErrors}

----------------------------------------------------------------------------
(* Python values *)

PyNone == [t |-> "None"]

Str(s) == [t |-> "str", s |-> s]

\* boto3's resource layer hands a DynamoDB Number attribute over as decimal.Decimal
Decimal(s) == [t |-> "Decimal", s |-> s]

Bool(b) == [t |-> "bool", b |-> b]

List(l) == [t |-> "list", l |-> l]

Dict(d) == [t |-> "dict", d |-> d]

EmptyDict == [k \in {} |-> PyNone]

\* bool(v): None, '', [] and {} are falsy
Truthy(v) ==
    CASE v.t = "None" -> FALSE
      [] v.t = "str"  -> v.s # ""
      [] v.t = "bool" -> v.b
      [] v.t = "list" -> v.l # <<>>
      [] v.t = "dict" -> DOMAIN v.d # {}
      [] OTHER        -> TRUE

\* a or b
PyOr(a, b) == IF Truthy(a) THEN a ELSE b

\* d.get(name, default) on a dict d
DictGet(d, name, default) == IF name \in DOMAIN d THEN d[name] ELSE default

\* event.get(name, default): the event is a dict whose values are Python values
EventGet(ev, name, default) == IF name \in DOMAIN ev THEN ev[name] ELSE default

----------------------------------------------------------------------------
(* json.dumps *)

RECURSIVE JsonSerializable(_)
JsonSerializable(v) ==
    CASE v.t = "Decimal" -> FALSE
      [] v.t = "dict"    -> \A k \in DOMAIN v.d : JsonSerializable(v.d[k])
      [] v.t = "list"    -> \A i \in 1..Len(v.l) : JsonSerializable(v.l[i])
      [] OTHER           -> TRUE

RECURSIVE JsonEncode(_)
JsonEncode(v) ==
    CASE v.t = "str"  -> v.s
      [] v.t = "bool" -> v.b
      [] v.t = "dict" -> [k \in DOMAIN v.d |-> JsonEncode(v.d[k])]
      [] v.t = "list" -> [i \in 1..Len(v.l) |-> JsonEncode(v.l[i])]
      [] OTHER        -> "null"

TypeErrorMessage == "Object of type Decimal is not JSON serializable"

\* json.dumps(v): the document, or TypeError on a value json cannot encode
json_dumps(v) ==
    IF JsonSerializable(v)
    THEN [ok |-> TRUE, text |-> JsonEncode(v)]
    ELSE [ok |-> FALSE, error |-> TypeErrorMessage]

----------------------------------------------------------------------------
(* What an invocation does *)

Idle == [kind |-> "idle", route |-> "none", calls |-> <<>>]

Return(response, route, calls) ==
    [kind |-> "returned", route |-> route, calls |-> calls, response |-> response]

Raise(exception, route, calls) ==
    [kind |-> "raised", route |-> route, calls |-> calls, exception |-> exception]

CorsHeaders ==
    [k \in {"Content-Type", "Access-Control-Allow-Origin"} |->
        IF k = "Content-Type" THEN "application/json" ELSE "*"]

----------------------------------------------------------------------------
(* src/src/auth/handler.py, src/src/bookings/handler.py, src/src/users/handler.py *)
(* Each first prints json.dumps(event); an event comes from the gateway as JSON, *)
(* so that dump cannot raise.                                                    *)

auth_lambda_handler(ev) ==
    LET http_method == ev.httpMethod
        path == ev.path
    IN  Return([statusCode |-> 501,
                headers |-> CorsHeaders,
                body |-> json_dumps(Dict(
                    [message |-> Str("Auth endpoint not implemented yet"),
                     received_path |-> Str(path),
                     received_method |-> Str(http_method)])).text],
               "auth", <<>>)

users_lambda_handler(ev) ==
    LET http_method == ev.httpMethod
        path == ev.path
        headers == EventGet(ev, "headers", Dict(EmptyDict))
    IN  IF headers.t # "dict"
        THEN \* None.get('Authorization')
             Raise("AttributeError", "users", <<>>)
        ELSE
        LET auth_header == PyOr(DictGet(headers.d, "Authorization", PyNone),
                                DictGet(headers.d, "authorization", PyNone))
        IN  Return([statusCode |-> 501,
                    headers |-> CorsHeaders,
                    body |-> json_dumps(Dict(
                        [message |-> Str("Users endpoint not implemented yet"),
                         received_path |-> Str(path),
                         received_method |-> Str(http_method),
                         has_auth_header |-> Bool(auth_header.t # "None"),
                         note |-> Str("Will return user profile based on JWT token")])).text],
                   "users", <<>>)

bookings_lambda_handler(ev) ==
    LET http_method == ev.httpMethod
        path == ev.path
    IN  Return([statusCode |-> 501,
                headers |-> CorsHeaders,
                body |-> json_dumps(Dict(
                    [message |-> Str("Bookings endpoint not implemented yet"),
                     received_path |-> Str(path),
                     received_method |-> Str(http_method),
                     note |-> Str("Will handle: create booking, list bookings, cancel booking")])).text],
               "bookings", <<>>)

----------------------------------------------------------------------------
(* Events the gateway, or a direct invocation, can hand to a function *)

NoEvent == [httpMethod |-> "", path |-> <<>>]

\* pathParameters: null (the gateway's value when a route has none) or a dict
PathParameterValues ==
    {PyNone, Dict(EmptyDict)}
    \cup { Dict([k \in {"flight_id"} |-> Str(s)]) : s \in FlightIds \cup {""} }

AuthKeys == {"Authorization", "authorization"}

HeaderTexts == {"", "Bearer t"}

\* headers: null, or a dict holding any of the two spellings of Authorization
HeaderValues ==
    {PyNone}
    \cup { Dict(h) : h \in UNION { [S -> {Str(x) : x \in HeaderTexts}] : S \in SUBSET AuthKeys } }

FlightsEvents ==
    { [httpMethod |-> m, path |-> p] : m \in Methods, p \in Paths }
    \cup { [httpMethod |-> m, path |-> p, pathParameters |-> pp] :
             m \in Methods, p \in Paths, pp \in PathParameterValues }

\* what a stub is given: the users stub reads the headers, the others read
\* nothing but the method and the path
StubEvents ==
    { [httpMethod |-> m, path |-> p] : m \in Methods, p \in StubPaths }
    \cup { [httpMethod |-> m, path |-> p, headers |-> h] :
             m \in Methods, p \in StubPaths, h \in {PyNone, Dict(EmptyDict)} }

UsersEvents ==
    StubEvents
    \cup { [httpMethod |-> "GET", path |-> <<"users", "me">>, headers |-> h] :
             h \in HeaderValues }

----------------------------------------------------------------------------
(* The store: boto3's Table over FlightsTable, primary key flight_id *)

\* a call the handler makes on the table: scan(), or get_item(Key={'flight_id': key})
Call(op, key) == [op |-> op, key |-> key]

\* An item as boto3 returns it: string attributes as str, a Number attribute
\* (price, available_seats) as decimal.Decimal
Items ==
    { Dict([flight_id |-> Str(id), origin |-> Str("MAD")]) : id \in FlightIds }
    \cup
    { Dict([flight_id |-> Str(id), origin |-> Str("MAD"), price |-> Decimal("89.99")]) :
        id \in FlightIds }

KeyOf(item) == item.d.flight_id.s

HasKey(tbl, id) == \E i \in 1..Len(tbl) : KeyOf(tbl[i]) = id

\* table.scan(): the response dict, every item under 'Items'
TableScan(tbl) == [Items |-> List(tbl)]

\* table.get_item(Key={'flight_id': id}): the response dict, with 'Item' only
\* when an item has exactly that key
TableGetItem(tbl, id) ==
    IF HasKey(tbl, id)
    THEN [Item |-> tbl[CHOOSE i \in 1..Len(tbl) : KeyOf(tbl[i]) = id]]
    ELSE EmptyDict

\* a scan or a get_item only reads: the table after the handler's calls
TableAfterDestructiveRead(tbl, calls) ==
    SelectSeq(tbl, LAMBDA item : \A c \in 1..Len(calls) : calls[c].key # KeyOf(item))

TableAfterRead(tbl, calls) == tbl

----------------------------------------------------------------------------
(* src/src/flights/handler.py *)

ExceptionResponseAsNotFound(message) ==
    [statusCode |-> 404, body |-> json_dumps(Dict([error |-> Str("Flight not found")])).text]

\* except Exception as e: 500 with str(e), and no 'headers' key
ExceptionResponse(message) ==
    [statusCode |-> 500, body |-> json_dumps(Dict([error |-> Str(message)])).text]

list_flights(ev, tbl, flt) ==
    LET calls == <<Call("scan", "")>>
    IN  IF flt.fails
        THEN Return(ExceptionResponse(flt.message), "list_flights", calls)
        ELSE LET response == TableScan(tbl)
                 items == DictGet(response, "Items", List(<<>>))
                 body == json_dumps(Dict([success |-> Bool(TRUE), data |-> items]))
             IN  IF body.ok
                 THEN Return([statusCode |-> 200,
                              headers |-> CorsHeaders,
                              body |-> body.text], "list_flights", calls)
                 ELSE Return(ExceptionResponse(body.error), "list_flights", calls)

get_flight(ev, tbl, flt) ==
    LET path_params == EventGet(ev, "pathParameters", Dict(EmptyDict))
    IN  IF path_params.t # "dict"
        THEN \* None.get(...): raised outside the try block
             Raise("AttributeError", "get_flight", <<>>)
        ELSE
        LET flight_id == DictGet(path_params.d, "flight_id", Str(""))
        IN  IF ~Truthy(flight_id)
            THEN Return([statusCode |-> 400,
                         body |-> json_dumps(Dict([error |-> Str("Missing flight_id")])).text],
                        "get_flight", <<>>)
            ELSE
            LET calls == <<Call("get_item", flight_id.s)>>
            IN  IF flt.fails
                THEN Return(ExceptionResponse(flt.message), "get_flight", calls)
                ELSE
                LET response == TableGetItem(tbl, flight_id.s)
                    item == DictGet(response, "Item", PyNone)
                IN  IF ~Truthy(item)
                    THEN Return([statusCode |-> 404,
                                 body |-> json_dumps(Dict([error |-> Str("Flight not found")])).text],
                                "get_flight", calls)
                    ELSE
                    LET body == json_dumps(Dict([success |-> Bool(TRUE), data |-> item]))
                    IN  IF body.ok
                        THEN Return([statusCode |-> 200,
                                     headers |-> CorsHeaders,
                                     body |-> body.text], "get_flight", calls)
                        ELSE Return(ExceptionResponse(body.error), "get_flight", calls)

\* '/flights/' in path: a segment 'flights' with a segment after it, anywhere
ContainsFlightsSlash(p) == \E i \in 1..(Len(p) - 1) : p[i] = "flights"

\* r or {'statusCode': 204, 'body': text}: a dict is falsy only when empty
OrFallback(r, text) ==
    IF r.kind = "returned" /\ DOMAIN r.response = {}
    THEN Return([statusCode |-> 204, body |-> [text |-> text]], r.route, r.calls)
    ELSE r

flights_lambda_handler(ev, tbl, flt) ==
    LET http_method == ev.httpMethod
        path == ev.path
    IN  IF http_method = "GET" /\ path = <<"flights">>
        THEN OrFallback(list_flights(ev, tbl, flt), "No flights found")
        ELSE IF http_method = "GET" /\ ContainsFlightsSlash(path)
        THEN OrFallback(get_flight(ev, tbl, flt), "Flight not found")
        ELSE Return([statusCode |-> 404,
                     body |-> json_dumps(Dict([error |-> Str("Not found")])).text],
                    "none", <<>>)

----------------------------------------------------------------------------
(* The state machine: one action per Lambda invocation, and the writers of the *)
(* table, which are outside this service                                        *)

Unseen == [seen |-> FALSE]

Seen(r, flt) == [result |-> r, seen |-> TRUE, answered |-> ~flt.fails]

\* the event is a GET that the router hands to get_flight with a flight_id
ReadsFlight(ev) ==
    /\ ev.httpMethod = "GET"
    /\ ev.path # <<"flights">>
    /\ ContainsFlightsSlash(ev.path)
    /\ "pathParameters" \in DOMAIN ev
    /\ ev.pathParameters.t = "dict"
    /\ "flight_id" \in DOMAIN ev.pathParameters.d
    /\ ev.pathParameters.d.flight_id.s # ""

FlightIdOf(ev) == ev.pathParameters.d.flight_id.s

Init ==
    /\ table = <<>>
    /\ service = "none"
    /\ event = NoEvent
    /\ fault = NoFault
    /\ result = Idle
    /\ lastGet = [id \in FlightIds |-> Unseen]
    /\ prior = Unseen

FlightsLambda ==
    \E ev \in FlightsEvents, flt \in Faults :
        /\ result' = flights_lambda_handler(ev, table, flt)
        \* the store can fail only an invocation that calls it
        /\ result'.calls = <<>> => flt = NoFault
        /\ service' = "flights"
        /\ event' = ev
        /\ fault' = flt
        /\ table' = TableAfterRead(table, result'.calls)
        /\ IF ReadsFlight(ev)
           THEN /\ prior' = lastGet[FlightIdOf(ev)]
                /\ lastGet' = [lastGet EXCEPT ![FlightIdOf(ev)] = Seen(result', flt)]
           ELSE /\ prior' = Unseen
                /\ UNCHANGED lastGet

StubLambda(name, ev, r) ==
    /\ service' = name
    /\ event' = ev
    /\ fault' = NoFault
    /\ result' = r
    /\ prior' = Unseen
    /\ UNCHANGED <<table, lastGet>>

AuthLambda == \E ev \in StubEvents : StubLambda("auth", ev, auth_lambda_handler(ev))

BookingsLambda == \E ev \in StubEvents : StubLambda("bookings", ev, bookings_lambda_handler(ev))

UsersLambda == \E ev \in UsersEvents : StubLambda("users", ev, users_lambda_handler(ev))

\* another writer puts an item: it replaces the item of the same key, or is added
PutItem ==
    \E item \in Items :
        /\ HasKey(table, KeyOf(item)) \/ Len(table) < MaxStore
        /\ table' = IF HasKey(table, KeyOf(item))
                    THEN [i \in 1..Len(table) |->
                            IF KeyOf(table[i]) = KeyOf(item) THEN item ELSE table[i]]
                    ELSE Append(table, item)
        /\ table' # table
        /\ service' = "none"
        /\ event' = NoEvent
        /\ fault' = NoFault
        /\ result' = Idle
        /\ lastGet' = [id \in FlightIds |-> Unseen]
        /\ prior' = Unseen

\* another writer deletes the item of a key
DeleteItem ==
    \E key \in FlightIds :
        /\ HasKey(table, key)
        /\ table' = SelectSeq(table, LAMBDA item : KeyOf(item) # key)
        /\ service' = "none"
        /\ event' = NoEvent
        /\ fault' = NoFault
        /\ result' = Idle
        /\ lastGet' = [id \in FlightIds |-> Unseen]
        /\ prior' = Unseen

Next ==
    \/ FlightsLambda
    \/ AuthLambda
    \/ BookingsLambda
    \/ UsersLambda
    \/ PutItem
    \/ DeleteItem

Spec == Init /\ [][Next]_vars

----------------------------------------------------------------------------
(* The claims.  Each formula speaks of the invocation that ran last: service, *)
(* event and fault are what it was given, result is what it did.               *)

\* C1: in the flights handler every request that matches no declared route (a
\* method other than GET, or a GET whose path is neither '/flights' nor starts
\* with '/flights/' and a segment) gets 404 {"error": "Not found"} and reaches
\* neither list_flights, get_flight nor the store.
C1_UnmatchedRouteGets404 ==
    LET declared ==
            /\ event.httpMethod = "GET"
            /\ \/ event.path = <<"flights">>
               \/ Len(event.path) >= 2 /\ event.path[1] = "flights"
    IN  (service = "flights" /\ ~declared) =>
            /\ result.kind = "returned"
            /\ result.response.statusCode = 404
            /\ result.response.body = [error |-> "Not found"]
            /\ result.route = "none"
            /\ result.calls = <<>>

\* C2: a request routed to get_flight whose flight_id path parameter is missing
\* or empty (no path-parameter mapping, no flight_id entry, or flight_id = '')
\* gets 400 {"error": "Missing flight_id"} and the store is not accessed.
C2_MissingFlightIdGets400 ==
    LET routed ==
            /\ event.httpMethod = "GET"
            /\ event.path # <<"flights">>
            /\ ContainsFlightsSlash(event.path)
        missing ==
            \/ "pathParameters" \notin DOMAIN event
            \/ event.pathParameters.t # "dict"
            \/ "flight_id" \notin DOMAIN event.pathParameters.d
            \/ event.pathParameters.d.flight_id.s = ""
    IN  (service = "flights" /\ routed /\ missing) =>
            /\ result.kind = "returned"
            /\ result.response.statusCode = 400
            /\ result.response.body = [error |-> "Missing flight_id"]
            /\ result.calls = <<>>

\* C3: GET /flights/{id} with a non-empty flight_id and a store that answers:
\* one exact-key read of id; if the table holds an item with key id the answer
\* is 200 {"success": true, "data": item} with data.flight_id = id, otherwise
\* 404 {"error": "Flight not found"}.
C3_GetFlightFoundOrNotFound ==
    (service = "flights" /\ ReadsFlight(event) /\ ~fault.fails) =>
        LET id == FlightIdOf(event)
        IN  /\ result.kind = "returned"
            /\ result.calls = <<[op |-> "get_item", key |-> id]>>
            /\ IF HasKey(table, id)
               THEN /\ result.response.statusCode = 200
                    /\ result.response.body.success = TRUE
                    /\ result.response.body.data.flight_id = id
               ELSE /\ result.response.statusCode = 404
                    /\ result.response.body = [error |-> "Flight not found"]

\* C4: GET /flights with a reachable store answers 200 and data is the sequence
\* of all items of the table in scan order, none missing and none added (an
\* empty table gives data = []).
C4_ListFlightsReturnsAll ==
    (service = "flights" /\ event.httpMethod = "GET" /\ event.path = <<"flights">>
        /\ ~fault.fails) =>
        /\ result.kind = "returned"
        /\ result.response.statusCode = 200
        /\ result.response.body.success = TRUE
        /\ DOMAIN result.response.body.data = 1..Len(table)
        /\ \A i \in 1..Len(table) :
               result.response.body.data[i].flight_id = KeyOf(table[i])

\* C5: in list_flights and get_flight a failing store call ends the invocation
\* with 500 {"error": <the error's message>}: the error does not escape, is not
\* turned into a 200 or a 404, and the call is not retried; no invocation calls
\* the store more than once.
C5_StoreErrorGets500 ==
    /\ (service = "flights" /\ fault.fails) =>
            /\ result.kind = "returned"
            /\ result.response.statusCode = 500
            /\ result.response.body = [error |-> fault.message]
            /\ Len(result.calls) = 1
    /\ Len(result.calls) <= 1

\* a get_flight whose get_item failed
C5_Witness ==
    /\ service = "flights"
    /\ fault.fails
    /\ result.route = "get_flight"
    /\ result.calls = <<[op |-> "get_item", key |-> "FL1"]>>
    /\ result.response.statusCode = 500

\* C6: every flights response with status 200, 400, 404 or 500 carries
\* Content-Type: application/json and Access-Control-Allow-Origin: *.
C6_EveryResponseHasCorsHeaders ==
    (service = "flights" /\ result.kind = "returned"
        /\ result.response.statusCode \in {200, 400, 404, 500}) =>
        /\ "headers" \in DOMAIN result.response
        /\ result.response.headers["Content-Type"] = "application/json"
        /\ result.response.headers["Access-Control-Allow-Origin"] = "*"

\* C7: every request to the auth, bookings or users stub, whatever its method,
\* path, headers or body, gets status 501 and a body whose received_path and
\* received_method are the request's path and method.
C7_StubsAlwaysAnswer501 ==
    (service \in {"auth", "bookings", "users"}) =>
        /\ result.kind = "returned"
        /\ result.response.statusCode = 501
        /\ result.response.body.received_path = event.path
        /\ result.response.body.received_method = event.httpMethod

\* C8: the users stub's has_auth_header is true exactly when the headers hold
\* an entry under 'Authorization' or 'authorization', whatever its value (an
\* empty string included); stated here for requests whose headers are a mapping.
C8_HasAuthHeaderIffKeyPresent ==
    (service = "users" /\ "headers" \in DOMAIN event /\ event.headers.t = "dict") =>
        /\ result.kind = "returned"
        /\ result.response.statusCode = 501
        /\ result.response.body.has_auth_header
             = (DOMAIN event.headers.d \cap AuthKeys # {})

\* C9: two GET /flights/{id} requests with no write to the table between them
\* return the same status and the same data.
C9_RepeatedGetIdentical ==
    (service = "flights" /\ ReadsFlight(event) /\ prior.seen) =>
        /\ result.kind = prior.result.kind
        /\ result.response = prior.result.response

\* C9 as amended: two GET /flights/{id} requests with no write to the table
\* between them, both answered by the store without error, return the same
\* status and the same data, whatever was invoked in between.
C9_RepeatedGetIdenticalWhenAnswered ==
    (service = "flights" /\ ReadsFlight(event) /\ prior.seen
        /\ prior.answered /\ ~fault.fails) =>
        /\ result.kind = prior.result.kind
        /\ result.response = prior.result.response

\* a second read of an item the table holds, both reads answered
C9_Witness ==
    /\ service = "flights"
    /\ ReadsFlight(event)
    /\ prior.seen
    /\ prior.answered
    /\ ~fault.fails
    /\ result.response.statusCode = 200
    /\ prior.result.response.statusCode = 200

\* C10: list_flights and get_flight return a non-empty response for every
\* request and store state, so no flights invocation produces 204: every
\* flights invocation answers with status 200, 400, 404 or 500.
C10_FlightsAlwaysAnswer ==
    (service = "flights") =>
        /\ result.kind = "returned"
        /\ result.response.statusCode \in {200, 400, 404, 500}

====
